---------------------------- MODULE Spec2Model ----------------------------
(***************************************************************************)
(* Model of langgraph_diagram.py: create_langgraph_diagram() builds one    *)
(* matplotlib figure from literal coordinates, exports it once with        *)
(* savefig and prints a confirmation line.                                 *)
(*                                                                         *)
(* Units.  Data coordinates are in hundredths of an axes unit (9.5 is      *)
(* 950).  Device lengths are in thousandths of an inch ("mil").  Font      *)
(* sizes and shrink distances are in points (72 per inch).                 *)
(***************************************************************************)
EXTENDS Integers, Sequences, FiniteSets, TLC

\* ------------------------------------------------------------------ bounds
MaxRuns == 2
MinCharW == 5
MaxCharW == 6

\* --------------------------------------------------- constants of the run
\* figsize=(16, 12) in mil
FigW == 16000
FigH == 12000
\* ax.set_xlim(0, 16) / ax.set_ylim(0, 12) in hundredths
XMax == 1600
YMax == 1200
\* default subplot parameters of a new figure (left .125, right .9,
\* bottom .11, top .88 of the figure), in mil
DefaultLeft == 2000
DefaultWidth == 12400
DefaultBottom == 1320
DefaultHeight == 9240
\* plt.tight_layout() default pad: 1.08 * 10pt font = 0.15in
TightLayoutPad == 150
\* savefig(dpi=300, bbox_inches='tight'): default pad_inches is 0.1in
DPI == 300
PadInches == 100
\* matplotlib's default z-orders: Patch 1, Text 3
PatchZOrder == 1
TextZOrder == 3
\* python's exit status after an uncaught exception
FailureStatus == 1

OutPath == "/Users/karwo09/code/voice-assistant/langgraph_architecture.png"
OtherPath == "langgraph_architecture.png"
Paths == {OutPath, OtherPath}
\* the first argument of plt.savefig
SavePathRelative == OtherPath
SavePath == OutPath
Marker == "LangGraph architecture diagram saved as 'langgraph_architecture.png'"

\* ------------------------------------------------------ the statement list
\* lines 14-17
Setup ==
  << [op |-> "subplots", line |-> 14],
     [op |-> "set_xlim", line |-> 15, lo |-> 0, hi |-> XMax],
     [op |-> "set_ylim", line |-> 16, lo |-> 0, hi |-> YMax],
     [op |-> "axis_off", line |-> 17] >>

\* lines 32-165: every ax.text / ax.add_patch call, in source order.  A
\* patch's record carries the arguments of its constructor; "node" is the
\* box of the source section a text belongs to.
Drawing ==
  <<
    [op |-> "text", line |-> 32, x |-> 800, y |-> 1150, len |-> 43, lines |-> 1, size |-> 20, ha |-> "center", va |-> "baseline", chip |-> FALSE, color |-> "#333333", node |-> "none"],
    [op |-> "box", line |-> 36, name |-> "input_box", x |-> 100, y |-> 950, w |-> 300, h |-> 120, pad |-> 10, fc |-> "#E3F2FD", ec |-> "black", lw |-> 2],
    [op |-> "text", line |-> 41, x |-> 250, y |-> 1010, len |-> 14, lines |-> 1, size |-> 12, ha |-> "center", va |-> "baseline", chip |-> FALSE, color |-> "black", node |-> "input_box"],
    [op |-> "text", line |-> 42, x |-> 250, y |-> 980, len |-> 14, lines |-> 1, size |-> 10, ha |-> "center", va |-> "baseline", chip |-> FALSE, color |-> "black", node |-> "input_box"],
    [op |-> "text", line |-> 43, x |-> 250, y |-> 960, len |-> 23, lines |-> 3, size |-> 9, ha |-> "center", va |-> "center", chip |-> FALSE, color |-> "black", node |-> "input_box"],
    [op |-> "box", line |-> 47, name |-> "think_box", x |-> 600, y |-> 950, w |-> 300, h |-> 120, pad |-> 10, fc |-> "#F3E5F5", ec |-> "black", lw |-> 2],
    [op |-> "text", line |-> 52, x |-> 750, y |-> 1010, len |-> 17, lines |-> 1, size |-> 12, ha |-> "center", va |-> "baseline", chip |-> FALSE, color |-> "black", node |-> "think_box"],
    [op |-> "text", line |-> 53, x |-> 750, y |-> 980, len |-> 20, lines |-> 1, size |-> 10, ha |-> "center", va |-> "baseline", chip |-> FALSE, color |-> "black", node |-> "think_box"],
    [op |-> "text", line |-> 54, x |-> 750, y |-> 960, len |-> 23, lines |-> 3, size |-> 9, ha |-> "center", va |-> "center", chip |-> FALSE, color |-> "black", node |-> "think_box"],
    [op |-> "box", line |-> 58, name |-> "tools_box", x |-> 1100, y |-> 950, w |-> 300, h |-> 120, pad |-> 10, fc |-> "#E8F5E8", ec |-> "black", lw |-> 2],
    [op |-> "text", line |-> 63, x |-> 1250, y |-> 1010, len |-> 14, lines |-> 1, size |-> 12, ha |-> "center", va |-> "baseline", chip |-> FALSE, color |-> "black", node |-> "tools_box"],
    [op |-> "text", line |-> 64, x |-> 1250, y |-> 980, len |-> 14, lines |-> 1, size |-> 10, ha |-> "center", va |-> "baseline", chip |-> FALSE, color |-> "black", node |-> "tools_box"],
    [op |-> "text", line |-> 65, x |-> 1250, y |-> 960, len |-> 19, lines |-> 3, size |-> 9, ha |-> "center", va |-> "center", chip |-> FALSE, color |-> "black", node |-> "tools_box"],
    [op |-> "box", line |-> 69, name |-> "synth_box", x |-> 600, y |-> 750, w |-> 300, h |-> 120, pad |-> 10, fc |-> "#FFF3E0", ec |-> "black", lw |-> 2],
    [op |-> "text", line |-> 74, x |-> 750, y |-> 810, len |-> 18, lines |-> 1, size |-> 12, ha |-> "center", va |-> "baseline", chip |-> FALSE, color |-> "black", node |-> "synth_box"],
    [op |-> "text", line |-> 75, x |-> 750, y |-> 780, len |-> 20, lines |-> 1, size |-> 10, ha |-> "center", va |-> "baseline", chip |-> FALSE, color |-> "black", node |-> "synth_box"],
    [op |-> "text", line |-> 76, x |-> 750, y |-> 760, len |-> 22, lines |-> 3, size |-> 9, ha |-> "center", va |-> "center", chip |-> FALSE, color |-> "black", node |-> "synth_box"],
    [op |-> "box", line |-> 80, name |-> "tools_section", x |-> 100, y |-> 550, w |-> 600, h |-> 150, pad |-> 10, fc |-> "#F5F5F5", ec |-> "black", lw |-> 1],
    [op |-> "text", line |-> 85, x |-> 400, y |-> 680, len |-> 15, lines |-> 1, size |-> 12, ha |-> "center", va |-> "baseline", chip |-> FALSE, color |-> "black", node |-> "tools_section"],
    [op |-> "text", line |-> 86, x |-> 200, y |-> 640, len |-> 18, lines |-> 1, size |-> 10, ha |-> "left", va |-> "baseline", chip |-> FALSE, color |-> "black", node |-> "tools_section"],
    [op |-> "text", line |-> 87, x |-> 200, y |-> 610, len |-> 11, lines |-> 1, size |-> 10, ha |-> "left", va |-> "baseline", chip |-> FALSE, color |-> "black", node |-> "tools_section"],
    [op |-> "text", line |-> 88, x |-> 200, y |-> 580, len |-> 12, lines |-> 1, size |-> 10, ha |-> "left", va |-> "baseline", chip |-> FALSE, color |-> "black", node |-> "tools_section"],
    [op |-> "text", line |-> 89, x |-> 450, y |-> 640, len |-> 12, lines |-> 1, size |-> 10, ha |-> "left", va |-> "baseline", chip |-> FALSE, color |-> "black", node |-> "tools_section"],
    [op |-> "text", line |-> 90, x |-> 450, y |-> 610, len |-> 14, lines |-> 1, size |-> 10, ha |-> "left", va |-> "baseline", chip |-> FALSE, color |-> "black", node |-> "tools_section"],
    [op |-> "text", line |-> 91, x |-> 450, y |-> 580, len |-> 16, lines |-> 1, size |-> 10, ha |-> "left", va |-> "baseline", chip |-> FALSE, color |-> "black", node |-> "tools_section"],
    [op |-> "box", line |-> 94, name |-> "hashtag_section", x |-> 900, y |-> 550, w |-> 600, h |-> 150, pad |-> 10, fc |-> "#FFF9C4", ec |-> "black", lw |-> 1],
    [op |-> "text", line |-> 99, x |-> 1200, y |-> 680, len |-> 20, lines |-> 1, size |-> 12, ha |-> "center", va |-> "baseline", chip |-> FALSE, color |-> "black", node |-> "hashtag_section"],
    [op |-> "text", line |-> 100, x |-> 1000, y |-> 640, len |-> 26, lines |-> 1, size |-> 10, ha |-> "left", va |-> "baseline", chip |-> FALSE, color |-> "black", node |-> "hashtag_section"],
    [op |-> "text", line |-> 101, x |-> 1000, y |-> 610, len |-> 17, lines |-> 1, size |-> 10, ha |-> "left", va |-> "baseline", chip |-> FALSE, color |-> "black", node |-> "hashtag_section"],
    [op |-> "text", line |-> 102, x |-> 1000, y |-> 580, len |-> 27, lines |-> 1, size |-> 10, ha |-> "left", va |-> "baseline", chip |-> FALSE, color |-> "black", node |-> "hashtag_section"],
    [op |-> "text", line |-> 103, x |-> 1300, y |-> 640, len |-> 19, lines |-> 1, size |-> 10, ha |-> "left", va |-> "baseline", chip |-> FALSE, color |-> "black", node |-> "hashtag_section"],
    [op |-> "text", line |-> 104, x |-> 1300, y |-> 610, len |-> 21, lines |-> 1, size |-> 10, ha |-> "left", va |-> "baseline", chip |-> FALSE, color |-> "black", node |-> "hashtag_section"],
    [op |-> "text", line |-> 105, x |-> 1300, y |-> 580, len |-> 21, lines |-> 1, size |-> 10, ha |-> "left", va |-> "baseline", chip |-> FALSE, color |-> "black", node |-> "hashtag_section"],
    [op |-> "box", line |-> 108, name |-> "stream_box", x |-> 100, y |-> 350, w |-> 1400, h |-> 150, pad |-> 10, fc |-> "#E1F5FE", ec |-> "blue", lw |-> 2],
    [op |-> "text", line |-> 113, x |-> 800, y |-> 470, len |-> 36, lines |-> 1, size |-> 14, ha |-> "center", va |-> "baseline", chip |-> FALSE, color |-> "black", node |-> "stream_box"],
    [op |-> "text", line |-> 114, x |-> 200, y |-> 430, len |-> 14, lines |-> 1, size |-> 10, ha |-> "left", va |-> "baseline", chip |-> TRUE, color |-> "black", node |-> "stream_box"],
    [op |-> "text", line |-> 115, x |-> 500, y |-> 430, len |-> 16, lines |-> 1, size |-> 10, ha |-> "left", va |-> "baseline", chip |-> TRUE, color |-> "black", node |-> "stream_box"],
    [op |-> "text", line |-> 116, x |-> 850, y |-> 430, len |-> 18, lines |-> 1, size |-> 10, ha |-> "left", va |-> "baseline", chip |-> TRUE, color |-> "black", node |-> "stream_box"],
    [op |-> "text", line |-> 117, x |-> 1200, y |-> 430, len |-> 17, lines |-> 1, size |-> 10, ha |-> "left", va |-> "baseline", chip |-> TRUE, color |-> "black", node |-> "stream_box"],
    [op |-> "text", line |-> 118, x |-> 800, y |-> 380, len |-> 87, lines |-> 1, size |-> 10, ha |-> "center", va |-> "baseline", chip |-> FALSE, color |-> "black", node |-> "stream_box"],
    [op |-> "box", line |-> 122, name |-> "llm_calls", x |-> 100, y |-> 150, w |-> 1400, h |-> 150, pad |-> 10, fc |-> "#FCE4EC", ec |-> "purple", lw |-> 2],
    [op |-> "text", line |-> 127, x |-> 800, y |-> 270, len |-> 22, lines |-> 1, size |-> 14, ha |-> "center", va |-> "baseline", chip |-> FALSE, color |-> "black", node |-> "llm_calls"],
    [op |-> "text", line |-> 128, x |-> 300, y |-> 230, len |-> 16, lines |-> 1, size |-> 11, ha |-> "center", va |-> "baseline", chip |-> TRUE, color |-> "black", node |-> "llm_calls"],
    [op |-> "text", line |-> 129, x |-> 300, y |-> 200, len |-> 20, lines |-> 1, size |-> 9, ha |-> "center", va |-> "baseline", chip |-> FALSE, color |-> "black", node |-> "llm_calls"],
    [op |-> "text", line |-> 130, x |-> 800, y |-> 230, len |-> 18, lines |-> 1, size |-> 11, ha |-> "center", va |-> "baseline", chip |-> TRUE, color |-> "black", node |-> "llm_calls"],
    [op |-> "text", line |-> 131, x |-> 800, y |-> 200, len |-> 16, lines |-> 1, size |-> 9, ha |-> "center", va |-> "baseline", chip |-> FALSE, color |-> "black", node |-> "llm_calls"],
    [op |-> "text", line |-> 132, x |-> 1300, y |-> 230, len |-> 17, lines |-> 1, size |-> 11, ha |-> "center", va |-> "baseline", chip |-> TRUE, color |-> "black", node |-> "llm_calls"],
    [op |-> "text", line |-> 133, x |-> 1300, y |-> 200, len |-> 20, lines |-> 1, size |-> 9, ha |-> "center", va |-> "baseline", chip |-> FALSE, color |-> "black", node |-> "llm_calls"],
    [op |-> "text", line |-> 134, x |-> 800, y |-> 170, len |-> 69, lines |-> 1, size |-> 10, ha |-> "center", va |-> "baseline", chip |-> FALSE, color |-> "purple", node |-> "llm_calls"],
    [op |-> "arrow", line |-> 139, name |-> "arrow1", ax |-> 400, ay |-> 1010, bx |-> 600, by |-> 1010, shrink |-> 5, scale |-> 20, fc |-> "#666666"],
    [op |-> "arrow", line |-> 144, name |-> "arrow2", ax |-> 900, ay |-> 1010, bx |-> 1100, by |-> 1010, shrink |-> 5, scale |-> 20, fc |-> "#666666"],
    [op |-> "arrow", line |-> 149, name |-> "arrow3", ax |-> 1250, ay |-> 950, bx |-> 750, by |-> 870, shrink |-> 5, scale |-> 20, fc |-> "#666666"],
    [op |-> "arrow", line |-> 154, name |-> "arrow4", ax |-> 400, ay |-> 550, bx |-> 1250, by |-> 950, shrink |-> 5, scale |-> 15, fc |-> "green"],
    [op |-> "arrow", line |-> 159, name |-> "arrow5", ax |-> 1200, ay |-> 550, bx |-> 250, by |-> 950, shrink |-> 5, scale |-> 15, fc |-> "orange"],
    [op |-> "text", line |-> 164, x |-> 800, y |-> 50, len |-> 85, lines |-> 1, size |-> 12, ha |-> "center", va |-> "baseline", chip |-> FALSE, color |-> "gray", node |-> "none"]
  >>

\* lines 167-172
Export ==
  << [op |-> "tight_layout", line |-> 167],
     [op |-> "savefig", line |-> 168, path |-> SavePath, dpi |-> DPI,
      bbox_inches |-> "tight", facecolor |-> "white"],
     [op |-> "close", line |-> 170],
     [op |-> "print", line |-> 172, text |-> Marker] >>


Swap(s, i, j) == [k \in 1..Len(s) |-> IF k = i THEN s[j] ELSE IF k = j THEN s[i] ELSE s[k]]
NDraw == Len(Drawing)

\* the print moved in front of the savefig
ProgramPrintBeforeSave == Setup \o Drawing \o Swap(Export, 2, 4)
\* the footer drawn after the export
ProgramFooterAfterSave ==
  Setup \o SubSeq(Drawing, 1, NDraw - 1) \o Export \o << Drawing[NDraw] >>
\* arrow1 starting 0.1 to the right of the input box's edge
ProgramArrowDetached ==
  Setup \o [Drawing EXCEPT ![50].ax = 410] \o Export
\* the synthesis box placed 0.6 higher, into the row of phase boxes
ProgramBoxOverlapping ==
  Setup \o [Drawing EXCEPT ![14].y = 810] \o Export
\* the body of create_langgraph_diagram, lines 14-172
Program == Setup \o Drawing \o Export

\* ---------------------------------------------------------------- geometry
Max(a, b) == IF a >= b THEN a ELSE b
Min(a, b) == IF a <= b THEN a ELSE b
Rect(x0, y0, x1, y1) == [x0 |-> x0, y0 |-> y0, x1 |-> x1, y1 |-> y1]
Inter(r, s) == Rect(Max(r.x0, s.x0), Max(r.y0, s.y0), Min(r.x1, s.x1), Min(r.y1, s.y1))
InRect(p, r) == r.x0 <= p[1] /\ p[1] <= r.x1 /\ r.y0 <= p[2] /\ p[2] <= r.y1
Within(r, s) == s.x0 <= r.x0 /\ r.x1 <= s.x1 /\ s.y0 <= r.y0 /\ r.y1 <= s.y1
Disjoint(r, s) == r.x1 < s.x0 \/ s.x1 < r.x0 \/ r.y1 < s.y0 \/ s.y1 < r.y0

\* The view of an axes: its position in the figure (mil) and its data limits.
\* v = [x0, y0, w, h, xlo, xhi, ylo, yhi]
DataRect(v) == Rect(v.xlo, v.ylo, v.xhi, v.yhi)
ToMilX(v, x) == v.x0 + ((x - v.xlo) * v.w) \div (v.xhi - v.xlo)
ToMilY(v, y) == v.y0 + ((y - v.ylo) * v.h) \div (v.yhi - v.ylo)
ToDataX(v, m) == v.xlo + ((m - v.x0) * (v.xhi - v.xlo)) \div v.w
ToDataY(v, m) == v.ylo + ((m - v.y0) * (v.yhi - v.ylo)) \div v.h
LenToDataX(v, m) == (m * (v.xhi - v.xlo)) \div v.w
LenToDataY(v, m) == (m * (v.yhi - v.ylo)) \div v.h
PtToMil(pt) == (pt * 1000) \div 72

\* Extent of a text in data coordinates.  cw is the mean glyph width of the
\* font in tenths of an em; a line is 1.2 em high, a baseline-aligned text
\* reaches 1 em above and 1/4 em below its anchor, and a bbox=dict(pad=0.3)
\* chip adds 0.3 em on every side.
TextExtent(e, v, cw) ==
  LET em   == PtToMil(e.size)
      wm   == (e.len * e.size * cw * 1000) \div 720
      w    == LenToDataX(v, wm)
      emy  == LenToDataY(v, em)
      px   == IF e.chip THEN LenToDataX(v, (3 * em) \div 10) ELSE 0
      py   == IF e.chip THEN LenToDataY(v, (3 * em) \div 10) ELSE 0
      x0   == IF e.ha = "center" THEN e.x - w \div 2 ELSE e.x
      x1   == IF e.ha = "center" THEN e.x + w \div 2 + 1 ELSE e.x + w
      half == (e.lines * emy * 6) \div 10
      y0   == IF e.va = "center" THEN e.y - half
              ELSE e.y - emy \div 4 - ((e.lines - 1) * emy * 12) \div 10
      y1   == IF e.va = "center" THEN e.y + half ELSE e.y + emy
  IN  Rect(x0 - px, y0 - py, x1 + px, y1 + py)

\* FancyBboxPatch((x, y), w, h, boxstyle="round,pad=p"): the declared
\* rectangle, and the drawn one, enlarged by the pad on every side.
BoxRect(e) == Rect(e.x, e.y, e.x + e.w, e.y + e.h)
PaddedRect(e) == Rect(e.x - e.pad, e.y - e.pad, e.x + e.w + e.pad, e.y + e.h + e.pad)
ArrowRect(e) == Rect(Min(e.ax, e.bx), Min(e.ay, e.by), Max(e.ax, e.bx), Max(e.ay, e.by))

\* Extent of an element in data coordinates.  Patches added with add_patch
\* are clipped to the axes, texts are not.
Extent(e, v, cw) ==
  IF e.op = "text" THEN TextExtent(e, v, cw)
  ELSE IF e.op = "box" THEN Inter(PaddedRect(e), DataRect(v))
  ELSE Inter(ArrowRect(e), DataRect(v))

Sq(n) == n * n
\* p lies on the drawn part of the arrow: on the segment, at least shrinkA /
\* shrinkB points away from either end.
OnArrow(e, p, v) ==
  LET s == LenToDataX(v, PtToMil(e.shrink)) + 1
  IN  /\ (p[1] - e.ax) * (e.by - e.ay) = (p[2] - e.ay) * (e.bx - e.ax)
      /\ InRect(p, ArrowRect(e))
      /\ Sq(p[1] - e.ax) + Sq(p[2] - e.ay) >= Sq(s)
      /\ Sq(p[1] - e.bx) + Sq(p[2] - e.by) >= Sq(s)

Covers(e, p, v, cw) ==
  IF e.op = "text" THEN InRect(p, TextExtent(e, v, cw))
  ELSE IF e.op = "box" THEN InRect(p, PaddedRect(e)) /\ InRect(p, DataRect(v))
  ELSE OnArrow(e, p, v) /\ InRect(p, DataRect(v))

\* No call passes zorder, so every element keeps the default of its kind.
ZOrder(e) == IF e.op = "text" THEN TextZOrder ELSE PatchZOrder

\* The order in which the renderer paints: indices into the element list.
\* InsertionOrder paints in the order of the calls; DrawOrder is what the
\* Axes does, a stable sort of the children by z-order.
Indices(elems) == [i \in 1..Len(elems) |-> i]
InsertionOrder(elems) == Indices(elems)
DrawOrder(elems) ==
  LET IsPatch(i) == ZOrder(elems[i]) = PatchZOrder
      IsText(i)  == ZOrder(elems[i]) = TextZOrder
  IN  SelectSeq(Indices(elems), IsPatch) \o SelectSeq(Indices(elems), IsText)

\* ---------------------------------------------------------------- rendering
MinOf(S) == CHOOSE m \in S : \A n \in S : m <= n
MaxOf(S) == CHOOSE m \in S : \A n \in S : m >= n
AxesRectMil(v) == Rect(v.x0, v.y0, v.x0 + v.w, v.y0 + v.h)
ExtentMil(e, v, cw) ==
  LET r == Extent(e, v, cw)
  IN  Rect(ToMilX(v, r.x0), ToMilY(v, r.y0), ToMilX(v, r.x1) + 1, ToMilY(v, r.y1) + 1)

\* Figure.get_tightbbox: the union of the axes' own extent with the extent
\* of every child of the axes, in mil.
TightBBox(elems, v, cw) ==
  LET I == 1..Len(elems)
      a == AxesRectMil(v)
  IN  Rect(MinOf({a.x0} \cup {ExtentMil(elems[i], v, cw).x0 : i \in I}),
           MinOf({a.y0} \cup {ExtentMil(elems[i], v, cw).y0 : i \in I}),
           MaxOf({a.x1} \cup {ExtentMil(elems[i], v, cw).x1 : i \in I}),
           MaxOf({a.y1} \cup {ExtentMil(elems[i], v, cw).y1 : i \in I}))

\* plt.tight_layout(): the axes is moved so that its tight bounding box sits
\* TightLayoutPad inside the figure on every side.
TightLayout(v, elems, cw) ==
  LET a == AxesRectMil(v)
      t == TightBBox(elems, v, cw)
      l == a.x0 - t.x0
      r == t.x1 - a.x1
      b == a.y0 - t.y0
      u == t.y1 - a.y1
  IN  [v EXCEPT !.x0 = TightLayoutPad + l,
                !.y0 = TightLayoutPad + b,
                !.w = FigW - 2 * TightLayoutPad - l - r,
                !.h = FigH - 2 * TightLayoutPad - b - u]

\* The region of the figure that savefig writes: without bbox_inches the
\* whole figure, with bbox_inches='tight' the tight bounding box t enlarged
\* by pad_inches.
FullFigureBBox(t) == Rect(0, 0, FigW, FigH)
SaveBBox(t) == Rect(t.x0 - PadInches, t.y0 - PadInches, t.x1 + PadInches, t.y1 + PadInches)

Pixels(mil, dpi) == (mil * dpi) \div 1000

\* The content of the written file: everything the rasteriser's output
\* depends on.
Render(st, elems, v, on, cw) ==
  LET bb == SaveBBox(TightBBox(elems, v, cw))
  IN  [tag |-> "png", dpi |-> st.dpi, facecolor |-> st.facecolor,
       bbox |-> bb, w |-> Pixels(bb.x1 - bb.x0, st.dpi), h |-> Pixels(bb.y1 - bb.y0, st.dpi),
       view |-> v, axison |-> on, cw |-> cw, elements |-> elems]

NoContent == [tag |-> "none"]
OldContent == [tag |-> "old"]

\* Index of the element seen at data point p of an image, 0 for none: the
\* last element in painting order that covers p.
VisibleAt(img, p) ==
  LET order == DrawOrder(img.elements)
      hit   == {k \in 1..Len(order) : Covers(img.elements[order[k]], p, img.view, img.cw)}
  IN  IF hit = {} THEN 0 ELSE order[MaxOf(hit)]

OnFrame(p, r) ==
  InRect(p, r) /\ (p[1] = r.x0 \/ p[1] = r.x1 \/ p[2] = r.y0 \/ p[2] = r.y1)

ElementColour(e) ==
  IF e.op = "text" THEN (IF e.chip THEN "white" ELSE e.color) ELSE e.fc

\* Colour at data point p: the visible element's, else the axes frame and
\* axes patch when the axis is on, else the facecolor handed to savefig.
ColourAt(img, p) ==
  LET i == VisibleAt(img, p)
  IN  IF i # 0 THEN ElementColour(img.elements[i])
      ELSE IF img.axison /\ OnFrame(p, DataRect(img.view)) THEN "black"
      ELSE img.facecolor

\* ------------------------------------------------------------- environment
\* open(path, 'wb'): creating a file needs an existing, writable directory;
\* truncating an existing file needs only the file to be writable.
CanOpen(dir, f) ==
  IF f.exists THEN dir # "missing" /\ f.writable ELSE dir = "writable"

\* exit status of the interpreter: an exception that reaches the top level
\* ends the process with status 1, a normal return with 0
ExitStatusSwallowed(raised) == 0
ExitStatus(raised) == IF raised THEN FailureStatus ELSE 0

\* the artists of the axes that plt.subplots creates
KeptElements(prev) == prev
FreshElements(prev) == << >>

\* the axes' axison flag after ax.axis('off')
AxisLeftOn == TRUE
AxisAfterOff == FALSE

\* ------------------------------------------------------------------- state
VARIABLES
  run,          \* number of the current invocation
  pc,           \* index of the next statement of Program
  status,       \* "running", "done" or "failed"
  exitCode,     \* exit status of the invocation, -1 while running
  figOpen,      \* the figure is registered with pyplot
  view,         \* axes position and data limits
  axison,       \* the axes draws its frame
  elements,     \* children of the axes, in the order of the calls
  dirMode,      \* directory of OutPath: "missing", "readonly", "writable"
  fs,           \* the files: Paths -> [exists, writable, content]
  fs0,          \* fs when the current invocation started
  written,      \* paths written by the current invocation
  saveAttempts, \* savefig calls of the current invocation
  stdout,       \* lines printed by the current invocation
  outputs,      \* content written by each successful savefig so far
  charW         \* mean glyph width of the installed font, tenths of an em

vars == << run, pc, status, exitCode, figOpen, view, axison, elements, dirMode,
           fs, fs0, written, saveAttempts, stdout, outputs, charW >>

canvas == << figOpen, view, axison, elements >>
disk == << dirMode, fs, fs0, written, saveAttempts, outputs >>

Absent == [exists |-> FALSE, writable |-> FALSE, content |-> NoContent]
OldFile(wr) == [exists |-> TRUE, writable |-> wr, content |-> OldContent]
NoView == [x0 |-> 0, y0 |-> 0, w |-> 1, h |-> 1, xlo |-> 0, xhi |-> 1, ylo |-> 0, yhi |-> 1]
DefaultView ==
  [x0 |-> DefaultLeft, y0 |-> DefaultBottom, w |-> DefaultWidth, h |-> DefaultHeight,
   xlo |-> 0, xhi |-> 100, ylo |-> 0, yhi |-> 100]

Init ==
  /\ run = 1 /\ pc = 1 /\ status = "running" /\ exitCode = -1
  /\ figOpen = FALSE /\ view = NoView /\ axison = FALSE /\ elements = << >>
  /\ dirMode \in {"missing", "readonly", "writable"}
  /\ \E out \in {Absent, OldFile(TRUE), OldFile(FALSE)}, oth \in {Absent, OldFile(TRUE)} :
       /\ dirMode = "missing" => out = Absent
       /\ fs = [p \in Paths |-> IF p = OutPath THEN out ELSE oth]
  /\ fs0 = fs
  /\ written = {} /\ saveAttempts = 0 /\ stdout = << >> /\ outputs = << >>
  /\ charW \in MinCharW..MaxCharW

Running == status = "running" /\ pc <= Len(Program)
Stmt == Program[pc]

\* line 14: fig, ax = plt.subplots(1, 1, figsize=(16, 12))
Subplots ==
  /\ Running /\ Stmt.op = "subplots"
  /\ figOpen' = TRUE /\ view' = DefaultView /\ axison' = TRUE
  /\ elements' = FreshElements(elements)
  /\ pc' = pc + 1
  /\ UNCHANGED << run, status, exitCode, disk, stdout, charW >>

\* line 15: ax.set_xlim(0, 16)
SetXlim ==
  /\ Running /\ Stmt.op = "set_xlim"
  /\ view' = [view EXCEPT !.xlo = Stmt.lo, !.xhi = Stmt.hi]
  /\ pc' = pc + 1
  /\ UNCHANGED << run, status, exitCode, figOpen, axison, elements, disk, stdout, charW >>

\* line 16: ax.set_ylim(0, 12)
SetYlim ==
  /\ Running /\ Stmt.op = "set_ylim"
  /\ view' = [view EXCEPT !.ylo = Stmt.lo, !.yhi = Stmt.hi]
  /\ pc' = pc + 1
  /\ UNCHANGED << run, status, exitCode, figOpen, axison, elements, disk, stdout, charW >>

\* line 17: ax.axis('off')
AxisOff ==
  /\ Running /\ Stmt.op = "axis_off"
  /\ axison' = AxisAfterOff
  /\ pc' = pc + 1
  /\ UNCHANGED << run, status, exitCode, figOpen, view, elements, disk, stdout, charW >>

\* ax.text(x, y, s, ...): a new Text is appended to the axes' children
AxText ==
  /\ Running /\ Stmt.op = "text"
  /\ elements' = Append(elements, Stmt)
  /\ pc' = pc + 1
  /\ UNCHANGED << run, status, exitCode, figOpen, view, axison, disk, stdout, charW >>

\* p = FancyBboxPatch(...) or ConnectionPatch(...); ax.add_patch(p)
AddPatch ==
  /\ Running /\ Stmt.op \in {"box", "arrow"}
  /\ elements' = Append(elements, Stmt)
  /\ pc' = pc + 1
  /\ UNCHANGED << run, status, exitCode, figOpen, view, axison, disk, stdout, charW >>

\* line 167: plt.tight_layout()
DoTightLayout ==
  /\ Running /\ Stmt.op = "tight_layout"
  /\ view' = TightLayout(view, elements, charW)
  /\ pc' = pc + 1
  /\ UNCHANGED << run, status, exitCode, figOpen, axison, elements, disk, stdout, charW >>

\* lines 168-169: plt.savefig(path, dpi=300, bbox_inches='tight',
\* facecolor='white'), the file can be opened: it is created or truncated
\* and the rendered image written to it.
SaveFigOk ==
  /\ Running /\ Stmt.op = "savefig"
  /\ CanOpen(dirMode, fs[Stmt.path])
  /\ LET img == Render(Stmt, elements, view, axison, charW)
     IN  /\ fs' = [fs EXCEPT ![Stmt.path] =
                     [exists |-> TRUE,
                      writable |-> IF fs[Stmt.path].exists THEN fs[Stmt.path].writable ELSE TRUE,
                      content |-> img]]
         /\ outputs' = Append(outputs, img)
  /\ written' = written \cup {Stmt.path}
  /\ saveAttempts' = saveAttempts + 1
  /\ pc' = pc + 1
  /\ UNCHANGED << run, status, exitCode, canvas, dirMode, fs0, stdout, charW >>

\* lines 168-169, the file cannot be opened: open() raises before anything
\* is created or truncated, nothing catches the exception, and the
\* interpreter exits.
SaveFigFail ==
  /\ Running /\ Stmt.op = "savefig"
  /\ ~CanOpen(dirMode, fs[Stmt.path])
  /\ saveAttempts' = saveAttempts + 1
  /\ status' = IF ExitStatus(TRUE) = 0 THEN "done" ELSE "failed"
  /\ exitCode' = ExitStatus(TRUE)
  /\ UNCHANGED << run, pc, canvas, dirMode, fs, fs0, written, outputs, stdout, charW >>

\* line 170: plt.close()
Close ==
  /\ Running /\ Stmt.op = "close"
  /\ figOpen' = FALSE
  /\ pc' = pc + 1
  /\ UNCHANGED << run, status, exitCode, view, axison, elements, disk, stdout, charW >>

\* line 172: print(...)
PrintMarker ==
  /\ Running /\ Stmt.op = "print"
  /\ stdout' = Append(stdout, Stmt.text)
  /\ pc' = pc + 1
  /\ UNCHANGED << run, status, exitCode, canvas, disk, charW >>

\* lines 174-175: create_langgraph_diagram() returns and the script ends
Exit ==
  /\ status = "running" /\ pc = Len(Program) + 1
  /\ status' = "done"
  /\ exitCode' = ExitStatus(FALSE)
  /\ UNCHANGED << run, pc, canvas, disk, stdout, charW >>

\* lines 174-175: the script is invoked again on the files the previous
\* invocation left
Rerun ==
  /\ status # "running" /\ run < MaxRuns
  /\ run' = run + 1 /\ pc' = 1 /\ status' = "running" /\ exitCode' = -1
  /\ fs0' = fs /\ written' = {} /\ saveAttempts' = 0 /\ stdout' = << >>
  /\ UNCHANGED << canvas, dirMode, fs, outputs, charW >>

Next ==
  \/ Subplots \/ SetXlim \/ SetYlim \/ AxisOff \/ AxText \/ AddPatch
  \/ DoTightLayout \/ SaveFigOk \/ SaveFigFail \/ Close \/ PrintMarker
  \/ Exit \/ Rerun

Spec == Init /\ [][Next]_vars

\* ----------------------------------------------------------------- queries
Terminal == status # "running"
Succeeded == status = "done"
Saved == fs[OutPath].content
BoxIdx(elems) == {i \in 1..Len(elems) : elems[i].op = "box"}
ArrowIdx(elems) == {i \in 1..Len(elems) : elems[i].op = "arrow"}
TextIdx(elems) == {i \in 1..Len(elems) : elems[i].op = "text"}
SameFile(f, g) ==
  /\ f.exists = g.exists /\ f.writable = g.writable
  /\ f.content.tag = g.content.tag
  /\ f.content.tag = "png" => f.content = g.content

RECURSIVE GCD(_, _)
GCD(a, b) == IF b = 0 THEN a ELSE GCD(b, a % b)
Abs(n) == IF n < 0 THEN -n ELSE n
\* the lattice points of an arrow's segment
ArrowPoints(e) ==
  LET n == GCD(Abs(e.bx - e.ax), Abs(e.by - e.ay))
  IN  {<< e.ax + k * ((e.bx - e.ax) \div n), e.ay + k * ((e.by - e.ay) \div n) >> : k \in 0..n}
StackPoints(elems) == UNION {ArrowPoints(elems[i]) : i \in ArrowIdx(elems)}
\* a grid over the canvas and a margin around it, every half unit
GridPoints == {<< 50 * i, 50 * j >> : i \in -1..33, j \in -1..25}
\* the four corner pixels of an image, as data points
Corners(img) ==
  LET px == 1000 \div img.dpi + 1
  IN  {<< ToDataX(img.view, x), ToDataY(img.view, y) >> :
         x \in {img.bbox.x0, img.bbox.x1 - px}, y \in {img.bbox.y0, img.bbox.y1 - px}}
InImage(img, p) ==
  InRect(<< ToMilX(img.view, p[1]), ToMilY(img.view, p[2]) >>, img.bbox)
CoveringAt(img, p) ==
  {i \in 1..Len(img.elements) : Covers(img.elements[i], p, img.view, img.cw)}

\* ------------------------------------------------------------------ claims

\* C1: a successful run writes exactly one file, the one at the fixed path
\* handed to savefig (created if absent, overwritten if present); every
\* other file is as it was when the run started.
C1_ExactlyOneFile ==
  Succeeded =>
    /\ written = {OutPath}
    /\ fs[OutPath].exists
    /\ Saved.tag = "png"
    /\ Saved = outputs[Len(outputs)]
    /\ \A p \in Paths \ {OutPath} : SameFile(fs[p], fs0[p])
C1_Witness ==
  Succeeded /\ written = {OutPath} /\ ~fs0[OutPath].exists /\ fs[OutPath].exists

\* C2 as stated: whenever the output directory is missing or unwritable the
\* run ends with a non-zero status after a single save attempt and the path
\* is absent or unchanged.
C2_Original ==
  (Terminal /\ dirMode \in {"missing", "readonly"}) =>
    /\ exitCode # 0
    /\ saveAttempts = 1
    /\ (~fs[OutPath].exists \/ SameFile(fs[OutPath], fs0[OutPath]))

\* C2 amended: when the output directory is missing, or is unwritable and
\* the path holds no writable file, the run ends with a non-zero status
\* after a single save attempt, nothing is written, and the path is absent
\* or holds what it held before the run.
C2_FailedSave ==
  (/\ Terminal
   /\ \/ dirMode = "missing"
      \/ dirMode = "readonly" /\ ~(fs0[OutPath].exists /\ fs0[OutPath].writable)) =>
    /\ status = "failed"
    /\ exitCode # 0
    /\ saveAttempts = 1
    /\ written = {}
    /\ (~fs[OutPath].exists \/ SameFile(fs[OutPath], fs0[OutPath]))
C2_Witness ==
  /\ status = "failed" /\ dirMode = "readonly" /\ saveAttempts = 1
  /\ fs[OutPath].exists /\ fs[OutPath].content.tag = "old"

\* C3: the marker is printed at most once, only once the file is written
\* and the figure closed, and at the end of a run it has been printed
\* exactly when the run wrote the output file.
C3_MarkerIffSaved ==
  /\ Len(stdout) <= 1
  /\ Len(stdout) = 1 =>
       /\ stdout[1] = Marker
       /\ OutPath \in written
       /\ Saved.tag = "png"
       /\ ~figOpen
  /\ Terminal => (Len(stdout) = 1 <=> OutPath \in written)
C3_Witness == Succeeded /\ Len(stdout) = 1 /\ OutPath \in written

\* C4: every successful run writes the same content, whatever the previous
\* run left behind.
C4_Deterministic ==
  /\ \A i, j \in 1..Len(outputs) : outputs[i] = outputs[j]
  /\ (Succeeded /\ outputs # << >>) => Saved = outputs[1]
C4_Witness ==
  /\ Succeeded /\ run = 2 /\ Len(outputs) = 2
  /\ fs0[OutPath].content.tag = "png"

\* C5 as stated: the written image is 16*300 by 12*300 pixels.
C5_Original ==
  Succeeded => /\ Saved.w = Pixels(FigW, DPI)
               /\ Saved.h = Pixels(FigH, DPI)

\* C5 amended: the written image is as large as the tight bounding box of
\* the drawn content plus the save pad, at 300 dots per inch; that box
\* contains the axes and lies inside the figure, so the image is smaller
\* than 4800 by 3600 pixels in both directions.
C5_TightDimensions ==
  Succeeded =>
    LET img == Saved
        a   == AxesRectMil(img.view)
    IN  /\ img.dpi = DPI
        /\ img.w = Pixels(img.bbox.x1 - img.bbox.x0, DPI)
        /\ img.h = Pixels(img.bbox.y1 - img.bbox.y0, DPI)
        /\ Within(a, img.bbox)
        /\ \A i \in 1..Len(img.elements) :
             Within(ExtentMil(img.elements[i], img.view, img.cw), img.bbox)
        /\ 0 < img.w /\ img.w < Pixels(FigW, DPI)
        /\ 0 < img.h /\ img.h < Pixels(FigH, DPI)
C5_Witness == Succeeded /\ Saved.tag = "png" /\ Len(Saved.elements) = NDraw

\* C6: no element covers a corner pixel of the written image, and every
\* point of the image that no element covers is white.
C6_WhiteBackground ==
  Succeeded =>
    LET img == Saved
    IN  /\ \A p \in Corners(img) : VisibleAt(img, p) = 0 /\ ColourAt(img, p) = "white"
        /\ \A p \in GridPoints :
             (InImage(img, p) /\ VisibleAt(img, p) = 0) => ColourAt(img, p) = "white"
C6_Witness ==
  /\ Succeeded /\ Saved.tag = "png"
  /\ \E p \in GridPoints : InImage(Saved, p) /\ VisibleAt(Saved, p) = 0
  /\ \E p \in GridPoints : InImage(Saved, p) /\ VisibleAt(Saved, p) # 0

\* C7 as stated: wherever elements overlap, the one added last is the one
\* seen.
C7_Original ==
  Succeeded =>
    \A p \in StackPoints(Saved.elements) :
      CoveringAt(Saved, p) # {} => VisibleAt(Saved, p) = MaxOf(CoveringAt(Saved, p))

\* C7 amended: of two overlapping elements the one of the kind with the
\* higher default z-order is seen (text over patches), and among elements of
\* one z-order the one added later: an arrow hides every box it crosses and
\* is hidden by every text it crosses.
C7_ZOrderThenSequence ==
  Succeeded =>
    LET img == Saved
        e   == img.elements
    IN  \A p \in StackPoints(e) :
          \A i, j \in CoveringAt(img, p) :
            /\ (e[i].op = "box" /\ e[j].op = "arrow") => VisibleAt(img, p) # i
            /\ (e[i].op = "arrow" /\ e[j].op = "text") => VisibleAt(img, p) # i
            /\ (e[i].op = e[j].op /\ i < j) => VisibleAt(img, p) # i
C7_Witness ==
  /\ Succeeded /\ Saved.tag = "png"
  /\ \E p \in StackPoints(Saved.elements) :
       \E i, j \in CoveringAt(Saved, p) :
         /\ Saved.elements[i].op = "text" /\ Saved.elements[j].op = "arrow"
         /\ i < j /\ VisibleAt(Saved, p) = i
  /\ \E p \in StackPoints(Saved.elements) :
       \E i, j \in CoveringAt(Saved, p) :
         /\ Saved.elements[i].op = "box" /\ Saved.elements[j].op = "arrow"
         /\ VisibleAt(Saved, p) = j

\* C8: a run calls savefig at most once, when every node, text and arrow
\* including the footer is on the canvas; afterwards the canvas stays as it
\* is, and an element, once added, is never changed or removed.
C8_BuiltOnceExportedOnce ==
  /\ [](/\ saveAttempts <= 1
        /\ saveAttempts = 1 => elements = Drawing)
  /\ [][(saveAttempts >= 1 /\ saveAttempts' >= 1) => elements' = elements]_vars
  /\ [][~(status = "running" /\ pc = 1) =>
          /\ Len(elements') >= Len(elements)
          /\ \A i \in 1..Len(elements) : elements'[i] = elements[i]]_vars
C8_Witness == Succeeded /\ saveAttempts = 1 /\ Len(elements) = NDraw /\ ~figOpen

OnEdge(p, r, side) ==
  IF side = "left" THEN p[1] = r.x0 /\ r.y0 <= p[2] /\ p[2] <= r.y1
  ELSE IF side = "right" THEN p[1] = r.x1 /\ r.y0 <= p[2] /\ p[2] <= r.y1
  ELSE IF side = "bottom" THEN p[2] = r.y0 /\ r.x0 <= p[1] /\ p[1] <= r.x1
  ELSE p[2] = r.y1 /\ r.x0 <= p[1] /\ p[1] <= r.x1
StrictlyInside(p, r) == r.x0 < p[1] /\ p[1] < r.x1 /\ r.y0 < p[2] /\ p[2] < r.y1
\* the attachment the claim lists for each arrow
Attachment ==
  [arrow1 |-> << "input_box", "right", "think_box", "left" >>,
   arrow2 |-> << "think_box", "right", "tools_box", "left" >>,
   arrow3 |-> << "tools_box", "bottom", "synth_box", "top" >>,
   arrow4 |-> << "tools_section", "bottom", "tools_box", "bottom" >>,
   arrow5 |-> << "hashtag_section", "bottom", "input_box", "bottom" >>]

\* C9: every arrow on the canvas starts and ends on an edge of the declared
\* rectangle of two different nodes, the ones the claim lists, and none of
\* its endpoints lies strictly inside a node.
C9_ArrowsAttached ==
  \A i \in ArrowIdx(elements) :
    LET a  == elements[i]
        at == Attachment[a.name]
        A  == << a.ax, a.ay >>
        B  == << a.bx, a.by >>
    IN  /\ at[1] # at[3]
        /\ \E m, n \in BoxIdx(elements) :
             /\ elements[m].name = at[1] /\ OnEdge(A, BoxRect(elements[m]), at[2])
             /\ elements[n].name = at[3] /\ OnEdge(B, BoxRect(elements[n]), at[4])
        /\ \A m \in BoxIdx(elements) :
             /\ ~StrictlyInside(A, BoxRect(elements[m]))
             /\ ~StrictlyInside(B, BoxRect(elements[m]))
C9_Witness == Cardinality(ArrowIdx(elements)) = 5 /\ Cardinality(BoxIdx(elements)) = 8

\* C10: on the canvas every padded node rectangle lies inside the axes
\* limits, no two padded rectangles meet, every text anchor lies inside the
\* axes limits and every node label's anchor inside its node's rectangle.
C10_LayoutWellFormed ==
  LET cv == Rect(0, 0, XMax, YMax)
  IN  /\ \A m \in BoxIdx(elements) : Within(PaddedRect(elements[m]), cv)
      /\ \A m, n \in BoxIdx(elements) :
           m # n => Disjoint(PaddedRect(elements[m]), PaddedRect(elements[n]))
      /\ \A t \in TextIdx(elements) :
           /\ InRect(<< elements[t].x, elements[t].y >>, cv)
           /\ elements[t].node # "none" =>
                \E m \in BoxIdx(elements) :
                  /\ m < t /\ elements[m].name = elements[t].node
                  /\ InRect(<< elements[t].x, elements[t].y >>, BoxRect(elements[m]))
C10_Witness ==
  /\ Cardinality(BoxIdx(elements)) = 8 /\ Len(elements) = NDraw
  /\ view.xhi = XMax /\ view.yhi = YMax
====
